---- MODULE Spec2Model ----
(***************************************************************************)
(* git_map_branches.py: BranchMapper builds a forest of local branches     *)
(* from their upstream pointers and renders it through OutputManager /     *)
(* OutputLine into aligned, colored columns.                               *)
(*                                                                         *)
(* Python strings are TLA+ strings (Len, \o and SubSeq act on them).       *)
(* An optional value (None or a value v) is the tuple <<>> or <<v>>.       *)
(***************************************************************************)
EXTENDS Integers, Sequences, FiniteSets, TLC

VARIABLES
  branches_info,    \* BranchMapper.__branches_info: key -> optional BranchInfo
  verbosity,        \* BranchMapper.verbosity
  show_subject,     \* BranchMapper.show_subject
  current_branch,   \* BranchMapper.__current_branch
  gone_branches,    \* BranchMapper.__gone_branches
  parent_map,       \* BranchMapper.__parent_map: parent -> list of children
  roots,            \* the local `roots` of start()
  todo,             \* branches the for loop of start() has yet to reach
  stack,            \* pending loops of sorted(...): frames [todo, depth]
  output,           \* BranchMapper.output, an OutputManager
  formatted,        \* what main prints: optional string
  pc,               \* position: "loop", "traverse", "print", "done", "assert_failed"
  trace,            \* history: the calls of __append_branch, [branch, depth]
  parent_of,        \* history: [branch, parent, answer] of each loop iteration
  fed               \* history: the lines handed to OutputManager.append

vars == <<branches_info, verbosity, show_subject, current_branch, gone_branches,
          parent_map, roots, todo, stack, output, formatted, pc, trace,
          parent_of, fed>>

-----------------------------------------------------------------------------
\* Bounds of the model.

\* Largest number of local branches in the metadata map.
MaxBranches == 2
\* Largest number of local branches when every column option is explored.
MaxColBranches == 1
\* Largest number of lines fed to a bare OutputManager.
MaxLines == 2

\* Names a local branch can have, in the order they are taken.
LocalSeq == <<"a", "b", "c", "d">>
\* Names that are no local branch: no upstream, a remote branch, another ref.
Externals == {"", "origin/m", "x"}
\* The external names of the topology runs.
TopoExternals == {"", "origin/m"}

None == <<>>
Some(v) == <<v>>

-----------------------------------------------------------------------------
\* Python string primitives.

\* The characters of branch names, in ASCII order.
Alphabet == "/abcdgimnorx"

Ord(c) == CHOOSE i \in 1..Len(Alphabet) : SubSeq(Alphabet, i, i) = c

\* str.__lt__: bytewise lexicographic order.
RECURSIVE StrLess(_, _)
StrLess(s, t) ==
  IF t = "" THEN FALSE
  ELSE IF s = "" THEN TRUE
  ELSE IF Head(s) = Head(t) THEN StrLess(Tail(s), Tail(t))
  ELSE Ord(Head(s)) < Ord(Head(t))

startswith(s, prefix) ==
  Len(prefix) <= Len(s) /\ SubSeq(s, 1, Len(prefix)) = prefix

\* ' ' * n
RECURSIVE Spaces(_)
Spaces(n) == IF n <= 0 THEN "" ELSE " " \o Spaces(n - 1)

\* A slip: one space for each level.
IndentOneSpace(depth) == Spaces(depth)

\* '  ' * depth
RECURSIVE Indent(_)
Indent(depth) == IF depth <= 0 THEN "" ELSE "  " \o Indent(depth - 1)

Whitespace == {" ", "\n", "\t"}

\* str.rstrip()
RECURSIVE rstrip(_)
rstrip(s) ==
  IF s = "" THEN ""
  ELSE IF SubSeq(s, Len(s), Len(s)) \in Whitespace
       THEN rstrip(SubSeq(s, 1, Len(s) - 1))
       ELSE s

Digits == "0123456789"

\* '%d' % n for n >= 0
RECURSIVE DecStr(_)
DecStr(n) ==
  IF n < 10 THEN SubSeq(Digits, n + 1, n + 1)
  ELSE DecStr(n \div 10) \o SubSeq(Digits, (n % 10) + 1, (n % 10) + 1)

\* Insertion of x into a sorted list, after the elements not greater than it.
RECURSIVE Insert(_, _)
Insert(x, seq) ==
  IF seq = <<>> THEN <<x>>
  ELSE IF StrLess(x, Head(seq)) THEN <<x>> \o seq
  ELSE <<Head(seq)>> \o Insert(x, Tail(seq))

\* sorted(list)
RECURSIVE sorted(_)
sorted(seq) ==
  IF seq = <<>> THEN <<>> ELSE Insert(seq[Len(seq)], sorted(SubSeq(seq, 1, Len(seq) - 1)))

\* The elements of a set in some order (a set's iteration order).
RECURSIVE SetToSeq(_)
SetToSeq(S) ==
  IF S = {} THEN <<>>
  ELSE LET x == CHOOSE y \in S : TRUE IN <<x>> \o SetToSeq(S \ {x})

Range(seq) == {seq[i] : i \in 1..Len(seq)}

-----------------------------------------------------------------------------
\* colorama's codes; "^" stands for the escape character.

ESC == "^"
Fore_WHITE == ESC \o "[37m"
Fore_RED == ESC \o "[31m"
Fore_GREEN == ESC \o "[32m"
Fore_BLUE == ESC \o "[34m"
Fore_MAGENTA == ESC \o "[35m"
Fore_CYAN == ESC \o "[36m"
Style_BRIGHT == ESC \o "[1m"
Style_NORMAL == ESC \o "[22m"

DEFAULT_SEPARATOR == Spaces(4)

-----------------------------------------------------------------------------
\* OutputLine

OutputLine == [columns |-> <<>>, separators |-> <<>>, colors |-> <<>>]

OutputLine_append(line, data, separator, color) ==
  [columns |-> Append(line.columns, data),
   separators |-> Append(line.separators, separator),
   colors |-> Append(line.colors, color)]

Min(a, b) == IF a < b THEN a ELSE b
Max(a, b) == IF a > b THEN a ELSE b

\* The loop of as_padded_string over zip(colors, columns, separators), from column i.
RECURSIVE PaddedFrom(_, _, _)
PaddedFrom(line, max_column_lengths, i) ==
  IF i > Min(Len(line.colors), Min(Len(line.columns), Len(line.separators)))
  THEN ""
  ELSE (IF max_column_lengths[i] = 0
        THEN ""
        ELSE line.colors[i] \o line.columns[i]
               \o Spaces(max_column_lengths[i] - Len(line.columns[i]))
               \o line.separators[i])
       \o PaddedFrom(line, max_column_lengths, i + 1)

as_padded_string(line, max_column_lengths) ==
  rstrip(PaddedFrom(line, max_column_lengths, 1))

-----------------------------------------------------------------------------
\* OutputManager; num_columns = 0 stands for None (both are falsy).

OutputManager(nocolor) ==
  [lines |-> <<>>, nocolor |-> nocolor, max_column_lengths |-> <<>>, num_columns |-> 0]

\* num_columns after the first two statements of append.
NumColumnsFor(om, line) ==
  IF om.num_columns = 0 THEN Len(line.columns) ELSE om.num_columns

\* The assertion of append.
AppendAsserts(om, line) == NumColumnsFor(om, line) = Len(line.columns)

\* append, when its assertion holds.
OutputManager_append(om, line) ==
  LET n == NumColumnsFor(om, line)
      lengths == IF om.num_columns = 0 THEN [i \in 1..n |-> 0]
                 ELSE om.max_column_lengths
      stored == IF om.nocolor THEN [line EXCEPT !.colors = [i \in 1..n |-> ""]]
                ELSE line
  IN [om EXCEPT
        !.num_columns = n,
        !.lines = Append(om.lines, stored),
        !.max_column_lengths =
          [i \in 1..n |-> Max(lengths[i], Len(line.columns[i]))]]

RECURSIVE JoinLines(_, _)
JoinLines(om, i) ==
  IF i > Len(om.lines) THEN ""
  ELSE (IF i > 1 THEN "\n" ELSE "")
       \o as_padded_string(om.lines[i], om.max_column_lengths)
       \o JoinLines(om, i + 1)

as_formatted_string(om) == JoinLines(om, 1)

-----------------------------------------------------------------------------
\* The collaborators of git_common and git_cl, as the mapper reads them.

Verbosities == 0..3

Locals(k) == {LocalSeq[i] : i \in 1..k}

\* A BranchesInfo tuple of get_branches_info.
BranchesInfo(hash, upstream, ahead, behind) ==
  [hash |-> hash, upstream |-> upstream, ahead |-> ahead, behind |-> behind]

\* The short hash of a local branch.
HashOfLocal(branch) == branch \o "1"
\* The short hash of HEAD when no branch is checked out.
DetachedHash == "ff"
\* The short hash of a ref that is no local branch.
HashOfRef == "e0"

\* get_branches_info: every local branch has its info; the upstreams that are
\* no local branch are keys with None. Without tracking status (verbosity 0)
\* ahead and behind are None, modelled as 0: the mapper never reads them then.
get_branches_info(locals, ups, aheads, behinds) ==
  [key \in locals \cup {ups[b] : b \in locals} |->
     IF key \in locals
     THEN Some(BranchesInfo(HashOfLocal(key), ups[key], aheads[key], behinds[key]))
     ELSE None]

Keys == DOMAIN branches_info
HasInfo(branch) == branch \in Keys /\ branches_info[branch] # None
InfoBranches == {b \in Keys : HasInfo(b)}

\* What upstream(branch) can answer: nothing, or a name of the listing (any
\* other name is no key of __branches_info, which __append_branch indexes).
UpstreamAnswers == {None} \cup {Some(n) : n \in Keys \ {""}}

\* The answers start() can get for a branch: upstream(branch) is called only
\* when the recorded upstream has no info (None stands for no call otherwise).
UpstreamAsked(branch) ==
  IF branches_info[branches_info[branch][1].upstream] = None
  THEN UpstreamAnswers ELSE {None}

\* hash_one('HEAD', short=True)
current_hash ==
  IF HasInfo(current_branch) THEN HashOfLocal(current_branch) ELSE DetachedHash

\* hash_one(branch, short=True) in the try of __append_branch: None when it raises.
hash_one(branch) ==
  IF branch = "" \/ branch \in gone_branches THEN None ELSE Some(HashOfRef)

\* tags()
tag_set == {"v1"}

\* self.__status_info[branch]: (url, color) from get_cl_statuses.
status_info(branch) ==
  IF branch = "a" THEN <<Some("r/1"), Fore_GREEN>> ELSE <<None, Fore_WHITE>>

\* run('log', '-n1', '--format=%s', branch)
commit_subject(branch) == "s:" \o branch

-----------------------------------------------------------------------------
\* BranchMapper

\* A slip: the gone branches forgotten.
is_invalid_parent_empty(parent) == parent = ""

is_invalid_parent(parent) == parent = "" \/ parent \in gone_branches

\* __color_for_branch. A branch with no hash is '' or gone, so the fourth
\* test is reached with a hash only.
color_for_branch(branch, branch_hash) ==
  LET matches == branch_hash # None /\ startswith(current_hash, branch_hash[1])
      color ==
        IF startswith(branch, "origin") THEN Fore_RED
        ELSE IF startswith(branch, "branch-heads") THEN Fore_BLUE
        ELSE IF is_invalid_parent(branch) \/ branch \in tag_set THEN Fore_MAGENTA
        ELSE IF matches THEN Fore_CYAN
        ELSE Fore_GREEN
  IN IF branch_hash # None /\ branch_hash[1] # "" /\ matches
     THEN color \o Style_BRIGHT
     ELSE color \o Style_NORMAL

\* The branch hash __append_branch shows.
BranchHashOf(branch) ==
  IF HasInfo(branch) THEN Some(branches_info[branch][1].hash) ELSE hash_one(branch)

\* The first cell's text: the branch name with indentation.
MainString(branch, depth) ==
  LET suffix == IF branch = current_branch
                   \/ (current_branch = "HEAD" /\ branch = current_hash)
                THEN " *" ELSE ""
      named == IF branch \in gone_branches THEN "{" \o branch \o ":GONE}" ELSE branch
      branch_string == IF branch = "" THEN "{NO_UPSTREAM}" ELSE named
  IN Indent(depth) \o branch_string \o suffix

\* A slip: the bar whenever either count is non-zero.
CenterSeparatorEither(ahead, behind) ==
  IF ahead # 0 \/ behind # 0 THEN "|" ELSE ""

\* center_separator: '|' if ahead and behind.
CenterSeparator(ahead, behind) ==
  IF ahead # 0 /\ behind # 0 THEN "|" ELSE ""

\* The five cells of the tracking status.
TrackingCells(line, branch) ==
  LET tracked == HasInfo(branch)
                 /\ ~is_invalid_parent(branches_info[branch][1].upstream)
      ahead == IF tracked THEN branches_info[branch][1].ahead ELSE 0
      behind == IF tracked THEN branches_info[branch][1].behind ELSE 0
      ahead_string == IF ahead # 0 THEN "ahead " \o DecStr(ahead) ELSE ""
      behind_string == IF behind # 0 THEN "behind " \o DecStr(behind) ELSE ""
      front_separator == IF ahead # 0 \/ behind # 0 THEN "[" ELSE ""
      back_separator == IF ahead # 0 \/ behind # 0 THEN "]" ELSE ""
      center_separator == CenterSeparator(ahead, behind)
      l1 == OutputLine_append(line, front_separator, " ", Fore_WHITE)
      l2 == OutputLine_append(l1, ahead_string, " ", Fore_MAGENTA)
      l3 == OutputLine_append(l2, center_separator, " ", Fore_WHITE)
      l4 == OutputLine_append(l3, behind_string, " ", Fore_MAGENTA)
  IN OutputLine_append(l4, back_separator, DEFAULT_SEPARATOR, Fore_WHITE)

\* A slip: no hash cell for a branch with no hash.
HashCellIfKnown(line, branch_hash) ==
  IF branch_hash = None THEN line
  ELSE OutputLine_append(line, branch_hash[1], " ", Fore_RED)

\* The hash cell.
HashCell(line, branch_hash) ==
  OutputLine_append(line, IF branch_hash # None THEN branch_hash[1] ELSE "",
                    " ", Fore_RED)

\* The Rietveld issue cell.
IssueCell(line, branch) ==
  LET none_text == IF is_invalid_parent(branch) THEN "" ELSE "None"
      url == status_info(branch)[1]
  IN OutputLine_append(line,
                       IF url # None /\ url[1] # "" THEN url[1] ELSE none_text,
                       DEFAULT_SEPARATOR, status_info(branch)[2])

\* The commit subject cell.
SubjectCell(line, branch) ==
  OutputLine_append(line, commit_subject(branch), DEFAULT_SEPARATOR, Fore_WHITE)

\* The OutputLine __append_branch builds for a branch.
BranchLine(branch, depth) ==
  LET branch_hash == BranchHashOf(branch)
      c1 == OutputLine_append(OutputLine, MainString(branch, depth),
                              DEFAULT_SEPARATOR,
                              color_for_branch(branch, branch_hash))
      c2 == IF verbosity >= 2 THEN HashCell(c1, branch_hash) ELSE c1
      c3 == IF verbosity >= 1 THEN TrackingCells(c2, branch) ELSE c2
      c4 == IF verbosity >= 2 THEN IssueCell(c3, branch) ELSE c3
  IN IF show_subject THEN SubjectCell(c4, branch) ELSE c4

\* A slip: the children in the order they were filed.
PoppedChildrenUnsorted(map, branch) == map[branch]

\* The children __append_branch recurses through: parent_map.pop(branch, ()), sorted.
PoppedChildren(map, branch) == sorted(map[branch])

\* A slip: the children read and left in the map.
PopFromKept(map, branch) == map

\* parent_map after parent_map.pop(branch, ()).
PopFrom(map, branch) == [map EXCEPT ![branch] = <<>>]

\* Leaving the loops that have nothing left to iterate.
RECURSIVE Unwind(_)
Unwind(st) ==
  IF st = <<>> THEN st
  ELSE IF st[Len(st)].todo = <<>> THEN Unwind(SubSeq(st, 1, Len(st) - 1))
  ELSE st

\* The parent start() files a branch under, its roots and gone branches,
\* given what upstream(branch) answers.
ResolvedParent(branch, answer) ==
  LET parent == branches_info[branch][1].upstream
  IN IF branches_info[parent] = None /\ answer # None /\ answer[1] # ""
     THEN answer[1] ELSE parent

GoneAfter(branch, answer) ==
  LET parent == branches_info[branch][1].upstream
  IN IF branches_info[parent] = None /\ ~(answer # None /\ answer[1] # "")
     THEN gone_branches \cup {parent} ELSE gone_branches

RootsAfter(branch, answer) ==
  LET parent == branches_info[branch][1].upstream
  IN IF branches_info[parent] = None
     THEN roots \cup {ResolvedParent(branch, answer)} ELSE roots

-----------------------------------------------------------------------------
\* The run of main: start(), then print.

\* The state start() begins its loop in.
Setup(locals, ups, aheads, behinds, verb, subject, nocolor, current) ==
  /\ branches_info = get_branches_info(locals, ups, aheads, behinds)
  /\ verbosity = verb
  /\ show_subject = subject
  /\ current_branch = current
  /\ gone_branches = {}
  /\ parent_map = [key \in locals \cup {ups[b] : b \in locals} |-> <<>>]
  /\ roots = {}
  /\ todo = locals
  /\ stack = <<>>
  /\ output = OutputManager(nocolor)
  /\ formatted = None
  /\ pc = "loop"
  /\ trace = <<>>
  /\ parent_of = <<>>
  /\ fed = <<>>

\* Topology: every map of at most MaxBranches local branches whose upstreams
\* are local branches, none or a remote branch; names only (verbosity 0), HEAD
\* detached or on the first branch.
Init ==
  \E k \in 0..MaxBranches :
    \E ups \in [Locals(k) -> Locals(k) \cup TopoExternals],
       current \in Locals(Min(k, 1)) \cup {"HEAD"} :
      Setup(Locals(k), ups, [b \in Locals(k) |-> 0], [b \in Locals(k) |-> 0],
            0, FALSE, FALSE, current)

\* Colors: every map of at most MaxColBranches local branches, every external
\* upstream, every checked-out branch, with and without --no-color.
InitColor ==
  \E k \in 0..MaxColBranches, nocolor \in BOOLEAN :
    \E ups \in [Locals(k) -> Locals(k) \cup Externals],
       current \in Locals(k) \cup {"HEAD"} :
      Setup(Locals(k), ups, [b \in Locals(k) |-> 0], [b \in Locals(k) |-> 0],
            0, FALSE, nocolor, current)

\* The (ahead, behind) pairs a branch can have; None, None without tracking status.
CountPairs(verb) ==
  IF verb = 0 THEN {<<0, 0>>}
  ELSE {<<0, 0>>, <<3, 0>>, <<2, 5>>, <<0, 1>>}

\* Columns: every verbosity and --show-subject, every ahead/behind pair, over
\* the maps of at most MaxColBranches local branches.
InitCols ==
  \E k \in 0..MaxColBranches, verb \in Verbosities, subject \in BOOLEAN :
    \E ups \in [Locals(k) -> Locals(k) \cup TopoExternals],
       counts \in [Locals(k) -> CountPairs(verb)],
       current \in Locals(Min(k, 1)) \cup {"HEAD"} :
      Setup(Locals(k), ups, [b \in Locals(k) |-> counts[b][1]],
            [b \in Locals(k) |-> counts[b][2]], verb, subject, FALSE, current)

\* One iteration of the for loop of start() over branches_info.iteritems(), in
\* any order. An item with no info is passed over (continue), so only the
\* items with info are steps.
LoopStep(branch) ==
  /\ pc = "loop"
  /\ branch \in todo
  /\ HasInfo(branch)
  /\ todo' = todo \ {branch}
  /\ \E answer \in UpstreamAsked(branch) :
       LET parent == ResolvedParent(branch, answer)
       IN /\ gone_branches' = GoneAfter(branch, answer)
          /\ roots' = RootsAfter(branch, answer)
          /\ parent_map' = [parent_map EXCEPT ![parent] = Append(@, branch)]
          /\ parent_of' = Append(parent_of, [branch |-> branch, parent |-> parent,
                                             answer |-> answer])
  /\ UNCHANGED <<branches_info, verbosity, show_subject, current_branch, stack,
                 output, formatted, pc, trace, fed>>

NoBranchesLine == OutputLine_append(OutputLine, "No User Branches",
                                    DEFAULT_SEPARATOR, Fore_WHITE)

\* The end of start(): the loop over sorted(roots), or the 'No User Branches' line.
StartRoots ==
  /\ pc = "loop"
  /\ todo = {}
  /\ IF roots # {}
     THEN /\ stack' = <<[todo |-> sorted(SetToSeq(roots)), depth |-> 0]>>
          /\ pc' = "traverse"
          /\ UNCHANGED <<output, fed>>
     ELSE /\ output' = OutputManager_append(output, NoBranchesLine)
          /\ fed' = Append(fed, NoBranchesLine)
          /\ pc' = "print"
          /\ UNCHANGED stack
  /\ UNCHANGED <<branches_info, verbosity, show_subject, current_branch,
                 gone_branches, parent_map, roots, todo, formatted, trace,
                 parent_of>>

\* One call of __append_branch, up to its next recursive call or its return.
AppendBranch ==
  /\ pc = "traverse"
  /\ stack # <<>>
  /\ LET top == stack[Len(stack)]
         branch == Head(top.todo)
         line == BranchLine(branch, top.depth)
         rest == [stack EXCEPT ![Len(stack)].todo = Tail(top.todo)]
         frame == [todo |-> PoppedChildren(parent_map, branch), depth |-> top.depth + 1]
     IN /\ trace' = Append(trace, [branch |-> branch, depth |-> top.depth])
        /\ IF AppendAsserts(output, line)
           THEN /\ output' = OutputManager_append(output, line)
                /\ fed' = Append(fed, line)
                /\ parent_map' = PopFrom(parent_map, branch)
                /\ stack' = Unwind(Append(rest, frame))
                /\ pc' = IF Unwind(Append(rest, frame)) = <<>> THEN "print" ELSE "traverse"
           ELSE /\ pc' = "assert_failed"
                /\ UNCHANGED <<output, fed, parent_map, stack>>
  /\ UNCHANGED <<branches_info, verbosity, show_subject, current_branch,
                 gone_branches, roots, todo, formatted, parent_of>>

\* print mapper.output.as_formatted_string()
PrintOutput ==
  /\ pc = "print"
  /\ formatted' = Some(as_formatted_string(output))
  /\ pc' = "done"
  /\ UNCHANGED <<branches_info, verbosity, show_subject, current_branch,
                 gone_branches, parent_map, roots, todo, stack, output, trace,
                 parent_of, fed>>

Next ==
  \/ \E branch \in todo : LoopStep(branch)
  \/ StartRoots
  \/ AppendBranch
  \/ PrintOutput

Spec == Init /\ [][Next]_vars

SpecColor == InitColor /\ [][Next]_vars

SpecCols == InitCols /\ [][Next]_vars

-----------------------------------------------------------------------------
\* A bare OutputManager fed any lines, then formatted.

\* The texts, separators and colors of the cells fed to a bare OutputManager.
FmtTexts == {"", "a"}
FmtSeparators == {" ", DEFAULT_SEPARATOR}
FmtColors == {Fore_WHITE, Fore_RED \o Style_BRIGHT}

\* The lines of one or two cells, built by OutputLine.append.
FmtLines ==
  LET cell1 == {OutputLine_append(OutputLine, d, sep, c) :
                  d \in FmtTexts, sep \in FmtSeparators, c \in FmtColors}
  IN cell1 \cup {OutputLine_append(l, d, sep, c) :
                   l \in cell1, d \in FmtTexts, sep \in FmtSeparators, c \in FmtColors}

\* A new OutputManager, with or without nocolor; no mapper runs.
InitFmt ==
  \E nocolor \in BOOLEAN :
    /\ output = OutputManager(nocolor)
    /\ formatted = None
    /\ fed = <<>>
    /\ pc = "feed"
    /\ branches_info = <<>>
    /\ verbosity = 0
    /\ show_subject = FALSE
    /\ current_branch = "HEAD"
    /\ gone_branches = {}
    /\ parent_map = <<>>
    /\ roots = {}
    /\ todo = {}
    /\ stack = <<>>
    /\ trace = <<>>
    /\ parent_of = <<>>

\* OutputManager.append(line)
FmtAppend(line) ==
  /\ pc = "feed"
  /\ Len(fed) < MaxLines
  /\ fed' = Append(fed, line)
  /\ IF AppendAsserts(output, line)
     THEN output' = OutputManager_append(output, line) /\ pc' = pc
     ELSE pc' = "assert_failed" /\ UNCHANGED output
  /\ UNCHANGED <<branches_info, verbosity, show_subject, current_branch,
                 gone_branches, parent_map, roots, todo, stack, formatted, trace,
                 parent_of>>

\* OutputManager.as_formatted_string()
FmtFormat ==
  /\ pc = "feed"
  /\ formatted' = Some(as_formatted_string(output))
  /\ pc' = "done"
  /\ UNCHANGED <<branches_info, verbosity, show_subject, current_branch,
                 gone_branches, parent_map, roots, todo, stack, output, trace,
                 parent_of, fed>>

NextFmt ==
  \/ \E line \in FmtLines : FmtAppend(line)
  \/ FmtFormat

SpecFmt == InitFmt /\ [][NextFmt]_vars

-----------------------------------------------------------------------------
\* The output as rows: row i is the i-th call of __append_branch, and fed[i]
\* is the line it built.

Done == pc = "done"
Rows == 1..Len(trace)
RowsOf(branch) == {i \in Rows : trace[i].branch = branch}
Filed == Range(parent_of)
UpstreamOf(branch) == branches_info[branch][1].upstream

\* The nearest earlier row whose depth is smaller; 0 when there is none.
ParentRow(j) ==
  LET above == {i \in 1..(j - 1) : trace[i].depth < trace[j].depth}
  IN IF above = {} THEN 0 ELSE CHOOSE i \in above : \A k \in above : k <= i

RECURSIVE LeadingSpaces(_)
LeadingSpaces(str) ==
  IF str # "" /\ Head(str) = " " THEN 1 + LeadingSpaces(Tail(str)) ELSE 0

\* The text of a row's name cell.
NameCell(i) == fed[i].columns[1]

\* A cyclic tracking graph: a branch that is its own parent, or two branches
\* that are each other's.
CyclicPair(e, f) == e.parent = f.branch /\ f.parent = e.branch

-----------------------------------------------------------------------------
\* C1: after start(), every branch with a BranchInfo has exactly one row, and
\* an empty metadata map gives exactly the 'No User Branches' row.
C1_ExactlyOneRow ==
  Done =>
    IF InfoBranches = {}
    THEN Len(output.lines) = 1 /\ output.lines[1].columns = <<"No User Branches">>
    ELSE \A b \in InfoBranches : Cardinality(RowsOf(b)) = 1

\* What is left to do: decreases with every step of the run.
PcRank == CASE pc = "loop" -> 3 [] pc = "traverse" -> 2 [] pc = "print" -> 1
            [] OTHER -> 0
Variant ==
  PcRank + 2 * Cardinality(todo)
    + Cardinality(roots) + Cardinality(InfoBranches) - Len(trace)

\* C2: the traversal terminates on every tracking graph, cyclic ones included:
\* the calls of __append_branch never exceed (number of roots) + (number of
\* branches), the traversal always has a next call until it is over, and every
\* step of the run brings its end nearer.
C2_Terminates ==
  /\ [](Len(trace) <= Cardinality(roots) + Cardinality(InfoBranches))
  /\ [](pc = "traverse" => stack # <<>> /\ stack[Len(stack)].todo # <<>>)
  /\ [](pc \in {"loop", "traverse", "print", "done"})
  /\ [][Variant' < Variant]_vars

\* A cyclic graph was traversed: a branch was reached a second time, and the
\* run ended.
C2_Witness ==
  /\ Done
  /\ \E e, f \in Filed : CyclicPair(e, f)
  /\ \E i, j \in Rows : i < j /\ trace[i].branch = trace[j].branch

\* C3: no branch name is the subject of two rows.
C3_AtMostOneRow ==
  \A i, j \in Rows : i # j => trace[i].branch # trace[j].branch

\* C10: every element of roots has no BranchInfo of its own.
C10_RootsHaveNoInfo == \A r \in roots : ~HasInfo(r)


-----------------------------------------------------------------------------
\* The order of the rows, from the sets of the run alone.

\* The branches start() filed under a parent.
FiledUnder(parent) == {e.branch : e \in {x \in Filed : x.parent = parent}}

\* A set of names in lexicographic order, least first.
RECURSIVE Ascending(_)
Ascending(S) ==
  IF S = {} THEN <<>>
  ELSE LET least == CHOOSE x \in S : \A y \in S \ {x} : StrLess(x, y)
       IN <<least>> \o Ascending(S \ {least})

\* Pre-order walk of the names at a depth; a name's children are walked the
\* first time the name is met.
RECURSIVE PreOrder(_, _, _)
PreOrder(names, depth, met) ==
  IF names = <<>> THEN [rows |-> <<>>, met |-> met]
  ELSE LET b == Head(names)
           kids == IF b \in met THEN <<>> ELSE Ascending(FiledUnder(b))
           below == PreOrder(kids, depth + 1, met \cup {b})
           after == PreOrder(Tail(names), depth, below.met)
       IN [rows |-> <<[branch |-> b, depth |-> depth]>> \o below.rows \o after.rows,
           met |-> after.met]

\* C4: rows come in pre-order, roots and the children of every parent in
\* lexicographic order of name: root rows ascend, rows with the same parent
\* row ascend, a row is at most one level deeper than the row before it, and
\* the finished sequence is the pre-order walk of the filed branches whatever
\* the order the metadata map was iterated in.
C4_PreOrderLexicographic ==
  /\ \A i, j \in Rows :
       (i < j /\ trace[i].depth = trace[j].depth /\ ParentRow(i) = ParentRow(j))
         => StrLess(trace[i].branch, trace[j].branch)
  /\ \A j \in Rows :
       trace[j].depth <= (IF j = 1 THEN 0 ELSE trace[j - 1].depth + 1)
  /\ pc \in {"print", "done"} /\ roots # {}
       => trace = PreOrder(Ascending(roots), 0, {}).rows

\* Two children of one parent were filed in descending order, below a row
\* that has a later sibling, and the run ended.
C4_Witness ==
  /\ Done
  /\ \E m, n \in 1..Len(parent_of) :
       /\ m < n
       /\ parent_of[m].parent = parent_of[n].parent
       /\ StrLess(parent_of[n].branch, parent_of[m].branch)
  /\ \E i, j \in Rows : i < j /\ trace[i].depth = 1 /\ trace[j].depth = 1

\* C5: every root has a row at depth 0 with no indentation; any other row is
\* one level below the nearest earlier row of smaller depth, that row is the
\* row of the parent the branch was filed under, and its name cell is indented
\* by two spaces more than that row's.
C5_DepthAndIndent ==
  /\ pc \in {"print", "done"} =>
       \A r \in roots : \E i \in RowsOf(r) : trace[i].depth = 0
  /\ \A j \in Rows : j <= Len(fed) =>
       /\ LeadingSpaces(NameCell(j)) = 2 * trace[j].depth
       /\ IF trace[j].depth = 0
          THEN trace[j].branch \in roots
          ELSE LET i == ParentRow(j)
               IN /\ i >= 1
                  /\ trace[i].depth = trace[j].depth - 1
                  /\ trace[j].branch \in FiledUnder(trace[i].branch)
                  /\ LeadingSpaces(NameCell(j)) = LeadingSpaces(NameCell(i)) + 2

\* A chain was rendered: a row at depth 2 under a row at depth 1.
C5_Witness ==
  /\ Done
  /\ \E j \in Rows : trace[j].depth = 2 /\ LeadingSpaces(NameCell(j)) = 4


-----------------------------------------------------------------------------
\* The branches whose upstream start() could not resolve: the recorded
\* upstream has no info and upstream(branch) answered nothing.
Unresolved ==
  {e \in Filed : /\ ~HasInfo(UpstreamOf(e.branch))
                 /\ (e.answer = None \/ e.answer[1] = "")}

PlaceholderText(upstream) ==
  IF upstream = "" THEN "{NO_UPSTREAM}" ELSE "{" \o upstream \o ":GONE}"

\* The color of a placeholder by the documented priority order: remote, then
\* release, then invalid.
PlaceholderColor(upstream) ==
  IF Len(upstream) >= 6 /\ SubSeq(upstream, 1, 6) = "origin" THEN Fore_RED
  ELSE IF Len(upstream) >= 12 /\ SubSeq(upstream, 1, 12) = "branch-heads" THEN Fore_BLUE
  ELSE Fore_MAGENTA

\* The color code a cell's color starts with (a Fore code has 5 characters).
ForeOf(color) == IF Len(color) >= 5 THEN SubSeq(color, 1, 5) ELSE color

\* Row j is the row of an unresolved branch under the root row of its
\* placeholder.
UnderPlaceholder(e, j) ==
  LET i == ParentRow(j)
  IN /\ i >= 1
     /\ trace[i].depth = 0
     /\ trace[i].branch = e.parent
     /\ NameCell(i) = PlaceholderText(e.parent)

-----------------------------------------------------------------------------
\* The text with every color code (escape ... 'm') removed.
RECURSIVE AfterCode(_)
AfterCode(str) ==
  IF str = "" THEN ""
  ELSE IF Head(str) = "m" THEN Tail(str) ELSE AfterCode(Tail(str))

RECURSIVE StripColors(_)
StripColors(str) ==
  IF str = "" THEN ""
  ELSE IF Head(str) = ESC THEN StripColors(AfterCode(Tail(str)))
  ELSE Head(str) \o StripColors(Tail(str))

\* The manager after the lines from the i-th on are appended.
RECURSIVE FeedAll(_, _, _)
FeedAll(om, lines, i) ==
  IF i > Len(lines) THEN om
  ELSE FeedAll(OutputManager_append(om, lines[i]), lines, i + 1)

\* C7: the text formatted from a row sequence is, once its color codes are
\* removed, the text formatted from the same rows with nocolor set.
C7_NoColorSameText ==
  (Done /\ formatted # None) =>
    StripColors(formatted[1]) = as_formatted_string(FeedAll(OutputManager(TRUE), fed, 1))

-----------------------------------------------------------------------------
\* The index before the first tracking cell of a branch row.
TrackOffset == IF verbosity >= 2 THEN 2 ELSE 1

AheadText(n) ==
  CASE n = 0 -> "" [] n = 2 -> "ahead 2" [] n = 3 -> "ahead 3" [] OTHER -> "ahead ?"
BehindText(n) ==
  CASE n = 0 -> "" [] n = 1 -> "behind 1" [] n = 5 -> "behind 5" [] OTHER -> "behind ?"

\* C8: at verbosity >= 1 the five tracking cells of a row are empty unless the
\* row's branch has info, a non-empty upstream that is not gone, and a non-zero
\* count; then the brackets are present, 'ahead N' iff ahead # 0, 'behind N'
\* iff behind # 0, and the bar iff both.
C8_TrackingCells ==
  verbosity >= 1 =>
    \A j \in Rows : j <= Len(fed) =>
      LET b == trace[j].branch
          cells == [n \in 1..5 |-> fed[j].columns[TrackOffset + n]]
          tracked == HasInfo(b) /\ UpstreamOf(b) # "" /\ UpstreamOf(b) \notin gone_branches
          ahead == IF HasInfo(b) THEN branches_info[b][1].ahead ELSE 0
          behind == IF HasInfo(b) THEN branches_info[b][1].behind ELSE 0
      IN IF ~tracked \/ (ahead = 0 /\ behind = 0)
         THEN cells = <<"", "", "", "", "">>
         ELSE cells = <<"[", AheadText(ahead),
                        IF ahead # 0 /\ behind # 0 THEN "|" ELSE "",
                        BehindText(behind), "]">>

\* The three examples were rendered: ahead only, ahead and behind, and a
\* branch with counts whose upstream is gone.
C8_Witness ==
  /\ Done
  /\ verbosity >= 1
  /\ \E j \in Rows :
       /\ HasInfo(trace[j].branch)
       /\ \/ [n \in 1..5 |-> fed[j].columns[TrackOffset + n]]
               = <<"[", "ahead 2", "|", "behind 5", "]">>
          \/ [n \in 1..5 |-> fed[j].columns[TrackOffset + n]]
               = <<"[", "ahead 3", "", "", "]">>

\* The cells of a branch row at the run's verbosity and show_subject.
BranchRowCells ==
  1 + (IF verbosity >= 2 THEN 1 ELSE 0) + (IF verbosity >= 1 THEN 5 ELSE 0)
    + (IF verbosity >= 2 THEN 1 ELSE 0) + (IF show_subject THEN 1 ELSE 0)

\* C9: the assertion of OutputManager.append never fails: all rows of a run
\* have the same number of cells, and a branch row has every column of the
\* run's verbosity and show_subject, populated or empty.
C9_SameColumnCount ==
  /\ pc # "assert_failed"
  /\ \A i \in 1..Len(output.lines) :
       /\ Len(output.lines[i].columns) = output.num_columns
       /\ Len(output.lines[i].colors) = output.num_columns
       /\ Len(output.lines[i].separators) = output.num_columns
  /\ \A j \in Rows : j <= Len(fed) => Len(fed[j].columns) = BranchRowCells

\* At verbosity 2 with the subject shown, a gone root (no hash) and its
\* branch were appended.
C9_Witness ==
  /\ Done
  /\ verbosity = 2
  /\ show_subject
  /\ \E i, j \in Rows :
       /\ trace[i].branch \in gone_branches
       /\ HasInfo(trace[j].branch)
       /\ Len(output.lines[i].columns) = 9
       /\ Len(output.lines[j].columns) = 9

====
